---- MODULE Spec2Model ----
(***************************************************************************)
(* Model of the Blue computer emulator (src/src/blue.rs).                  *)
(*                                                                         *)
(* The machine (struct BlueComputer) is one record, cpu.  Every handler    *)
(* do_xxx(&mut self, tick) is an operator from a machine record and a tick *)
(* to the machine record after the handler.  A Rust panic (a failed        *)
(* unwrap, an index out of bounds, an arithmetic overflow in a build with  *)
(* overflow checks) ends the process: the record's panic field names it    *)
(* and no further step is taken.                                           *)
(*                                                                         *)
(* Spec is the program: run_program's loop of emulate_cycle, the debug     *)
(* prompt and handle_io.  HandlerSpec applies the common Fetch logic of    *)
(* process_tick followed by one named handler, tick by tick, to machine    *)
(* states drawn from bounded sets.                                         *)
(***************************************************************************)
EXTENDS Integers, Sequences, FiniteSets, TLC

VARIABLES
    cpu,      \* the BlueComputer
    twin,     \* HandlerSpec: a second machine started in the same state
    pre,      \* history: cpu when the current cycle (Spec) or instruction (HandlerSpec) began
    loc,      \* position in run_program: "cycle", "debug", "quit", "panic", "done"
    tag,      \* HandlerSpec: the handler applied to cpu ("none" in Spec)
    build,    \* "debug" (overflow checks) or "release" (wrapping arithmetic)
    patched,  \* history: registers patched by x commands so far
    ncycles,  \* cycles started so far (HandlerSpec: of the current instruction)
    ncmds,    \* debug commands other than c and q issued so far
    ninstr,   \* HandlerSpec: instructions started so far (0 in Spec)
    args      \* FlagSpec: the arguments of the call of set_flags (<<>> elsewhere)

vars == <<cpu, twin, pre, loc, tag, build, patched, ncycles, ncmds, ninstr, args>>

----------------------------------------------------------------------------
(* Bounds *)

MaxCycles == 3
MaxCmds == 1
MaxProg == 2
MaxHCycles == 3
MaxInstr == 2

(* Program constants *)

RAM_LENGTH == 4096
FLAG_ZERO == 1
FLAG_CARRY == 2
FLAG_OVERFLOW == 4
FLAG_NEGATIVE == 8

Word == 65536   \* BlueRegister = u16: values 0 .. Word - 1

----------------------------------------------------------------------------
(* Bit operations on naturals *)

RECURSIVE BitAnd(_, _)
BitAnd(x, y) ==
    IF x = 0 \/ y = 0 THEN 0
    ELSE (x % 2) * (y % 2) + 2 * BitAnd(x \div 2, y \div 2)

RECURSIVE BitOr(_, _)
BitOr(x, y) ==
    IF x = 0 THEN y
    ELSE IF y = 0 THEN x
    ELSE (IF x % 2 = 1 \/ y % 2 = 1 THEN 1 ELSE 0) + 2 * BitOr(x \div 2, y \div 2)

RECURSIVE BitXor(_, _)
BitXor(x, y) ==
    IF x = 0 THEN y
    ELSE IF y = 0 THEN x
    ELSE ((x + y) % 2) + 2 * BitXor(x \div 2, y \div 2)

RECURSIVE Pow2(_)
Pow2(n) == IF n = 0 THEN 1 ELSE 2 * Pow2(n - 1)

Shr(x, n) == x \div Pow2(n)

\* << on u16: bits shifted out of the 16-bit word are lost
Shl16(x, n) == (x * Pow2(n)) % Word

\* ! on u16
Not16(x) == (Word - 1) - x

----------------------------------------------------------------------------
(* Machine state *)

Tags == {"Hlt", "Add", "Xor", "And", "Ior", "Not", "Lda", "Sta", "Srj",
         "Jma", "Jmp", "Inp", "Out", "Ral", "Csa", "Nop", "Sub", "Cmp"}

\* BlueComputer::new
new ==
    [ state |-> "Fetch",
      transfer_active |-> FALSE,
      ready |-> FALSE,
      power |-> FALSE,
      pc |-> 0, a |-> 0, z |-> 0, sr |-> 0, mar |-> 0, mbr |-> 0, ir |-> 0,
      ram |-> << >>,
      dsl |-> 0, dil |-> 0, dol |-> 0,
      flags |-> 0,
      clock_pulse |-> 0,
      breakpoints |-> {},
      debug_enabled |-> TRUE,    \* debug.enabled; print_registers and manual_input are never read
      panic |-> "none" ]

\* ram is [u16; 4096], zero-filled at load; the record keeps the words that
\* were loaded or stored, every other word of 0 .. RAM_LENGTH - 1 reads 0
RamWord(ram, i) == IF i \in DOMAIN ram THEN ram[i] ELSE 0

RamStore(ram, i, v) == [j \in (DOMAIN ram) \cup {i} |-> IF j = i THEN v ELSE RamWord(ram, j)]

Panic(m, why) == [m EXCEPT !.panic = why]

\* self.ram[self.mar as usize]: the word read, and whether the index is in bounds
ReadRam(m) == RamWord(m.ram, m.mar)

IndexOk(m) == m.mar < RAM_LENGTH

----------------------------------------------------------------------------
(* Instruction decoder *)

\* impl TryFrom<u16> for Instruction
try_from(value) ==
    LET op == Shr(BitAnd(value, 61440), 12) IN
    CASE op = 0 -> "Hlt"
      [] op = 1 -> "Add"
      [] op = 2 -> "Xor"
      [] op = 3 -> "And"
      [] op = 4 -> "Ior"
      [] op = 5 -> "Not"
      [] op = 6 -> "Lda"
      [] op = 7 -> "Sta"
      [] op = 8 -> "Srj"
      [] op = 9 -> "Jma"
      [] op = 10 -> "Jmp"
      [] op = 11 -> "Inp"
      [] op = 12 -> "Out"
      [] op = 13 -> "Ral"
      [] op = 14 -> "Csa"
      [] op = 15 -> "Nop"
      [] op = 16 -> "Sub"
      [] op = 17 -> "Cmp"
      [] OTHER -> "Err"

\* get_instruction: the opcode field of IR is extracted and the result is
\* handed to try_from, which extracts the field again; "Err" is the unwrap panic
get_instruction(m) == try_from(Shr(BitAnd(m.ir, 61440), 12))

----------------------------------------------------------------------------
(* Flag unit *)

set_flags_keep(m, result, carry, overflow) ==
    LET f0 == m.flags
        f1 == IF result = 0 THEN BitOr(f0, FLAG_ZERO) ELSE f0
        f2 == IF carry THEN BitOr(f1, FLAG_CARRY) ELSE f1
        f3 == IF overflow THEN BitOr(f2, FLAG_OVERFLOW) ELSE f2
        f4 == IF BitAnd(result, 32768) # 0 THEN BitOr(f3, FLAG_NEGATIVE) ELSE f3
    IN [m EXCEPT !.flags = f4]

set_flags(m, result, carry, overflow) ==
    LET f0 == 0
        f1 == IF result = 0 THEN BitOr(f0, FLAG_ZERO) ELSE f0
        f2 == IF carry THEN BitOr(f1, FLAG_CARRY) ELSE f1
        f3 == IF overflow THEN BitOr(f2, FLAG_OVERFLOW) ELSE f2
        f4 == IF BitAnd(result, 32768) # 0 THEN BitOr(f3, FLAG_NEGATIVE) ELSE f3
    IN [m EXCEPT !.flags = f4]

----------------------------------------------------------------------------
(* Per-instruction microprograms *)

do_hlt_early(m, tick) ==
    CASE tick = 4 -> [m EXCEPT !.power = FALSE]
      [] tick = 7 -> [m EXCEPT !.mar = m.pc]
      [] OTHER -> m

do_hlt(m, tick) ==
    CASE tick = 6 -> [m EXCEPT !.power = FALSE]
      [] tick = 7 -> [m EXCEPT !.mar = m.pc]
      [] OTHER -> m

\* do_add, Execute tick 6.  u16::try_from(result).unwrap() panics when the
\* u32 sum does not fit in 16 bits.
add_tick6(m) ==
    LET z == m.z
        mm == m.mbr
        result == z + mm
    IN IF result > 65535 THEN Panic(m, "unwrap")
       ELSE LET m1 == [m EXCEPT !.a = result]
                z_s == m.z
                m_s == m.mbr
                result_s == z_s + m_s
                overflow == (BitAnd(BitXor(z_s, result_s), 32768) # 0)
                            /\ (BitAnd(BitXor(z_s, m_s), 32768) = 0)
                carry == result > 65535
                m2 == set_flags(m1, m1.a, carry, overflow)
            IN IF overflow THEN [m2 EXCEPT !.power = FALSE] ELSE m2

do_add(m, tick) ==
    IF m.state = "Fetch" THEN
        CASE tick = 5 -> [m EXCEPT !.z = 0]
          [] tick = 6 -> [m EXCEPT !.z = m.a]
          [] tick = 7 -> [m EXCEPT !.mar = BitAnd(m.ir, 4095), !.state = "Execute"]
          [] OTHER -> m
    ELSE
        CASE tick = 2 -> [m EXCEPT !.a = 0, !.mbr = 0]
          [] tick = 3 -> IF IndexOk(m) THEN [m EXCEPT !.mbr = ReadRam(m)] ELSE Panic(m, "index")
          [] tick = 6 -> add_tick6(m)
          [] tick = 7 -> [m EXCEPT !.mar = m.pc, !.state = "Fetch"]
          [] OTHER -> m

xor_tick6(m) ==
    LET m1 == [m EXCEPT !.a = BitXor(m.z, m.mbr)]
    IN set_flags(m1, m1.a, FALSE, FALSE)

do_xor(m, tick) ==
    IF m.state = "Fetch" THEN
        CASE tick = 5 -> [m EXCEPT !.z = 0]
          [] tick = 6 -> [m EXCEPT !.z = m.a]
          [] tick = 7 -> [m EXCEPT !.mar = BitAnd(m.ir, 4095), !.state = "Execute"]
          [] OTHER -> m
    ELSE
        CASE tick = 2 -> [m EXCEPT !.a = 0, !.mbr = 0]
          [] tick = 3 -> IF IndexOk(m) THEN [m EXCEPT !.mbr = ReadRam(m)] ELSE Panic(m, "index")
          [] tick = 6 -> xor_tick6(m)
          [] tick = 7 -> [m EXCEPT !.mar = m.pc, !.state = "Fetch"]
          [] OTHER -> m

and_tick6(m) ==
    LET m1 == [m EXCEPT !.a = BitAnd(m.z, m.mbr)]
    IN set_flags(m1, m1.a, FALSE, FALSE)

do_and(m, tick) ==
    IF m.state = "Fetch" THEN
        CASE tick = 5 -> [m EXCEPT !.z = 0]
          [] tick = 6 -> [m EXCEPT !.z = m.a]
          [] tick = 7 -> [m EXCEPT !.mar = BitAnd(m.ir, 4095), !.state = "Execute"]
          [] OTHER -> m
    ELSE
        CASE tick = 2 -> [m EXCEPT !.a = 0, !.mbr = 0]
          [] tick = 3 -> IF IndexOk(m) THEN [m EXCEPT !.mbr = ReadRam(m)] ELSE Panic(m, "index")
          [] tick = 6 -> and_tick6(m)
          [] tick = 7 -> [m EXCEPT !.mar = m.pc, !.state = "Fetch"]
          [] OTHER -> m

ior_tick6(m) ==
    LET m1 == [m EXCEPT !.a = BitOr(m.z, m.mbr)]
    IN set_flags(m1, m1.a, FALSE, FALSE)

do_ior(m, tick) ==
    IF m.state = "Fetch" THEN
        CASE tick = 5 -> [m EXCEPT !.z = 0]
          [] tick = 6 -> [m EXCEPT !.z = m.a]
          [] tick = 7 -> [m EXCEPT !.mar = BitAnd(m.ir, 4095), !.state = "Execute"]
          [] OTHER -> m
    ELSE
        CASE tick = 2 -> [m EXCEPT !.a = 0, !.mbr = 0]
          [] tick = 3 -> IF IndexOk(m) THEN [m EXCEPT !.mbr = ReadRam(m)] ELSE Panic(m, "index")
          [] tick = 6 -> ior_tick6(m)
          [] tick = 7 -> [m EXCEPT !.mar = m.pc, !.state = "Fetch"]
          [] OTHER -> m

do_not_flags(m, tick) ==
    IF m.state = "Fetch" THEN
        CASE tick = 5 -> [m EXCEPT !.z = 0]
          [] tick = 6 -> [m EXCEPT !.z = m.a]
          [] tick = 7 -> [m EXCEPT !.state = "Execute"]
          [] OTHER -> m
    ELSE
        CASE tick = 0 -> [m EXCEPT !.a = 0]
          [] tick = 1 -> set_flags([m EXCEPT !.a = Not16(m.z)], Not16(m.z), FALSE, FALSE)
          [] tick = 7 -> [m EXCEPT !.mar = m.pc, !.state = "Fetch"]
          [] OTHER -> m

do_not(m, tick) ==
    IF m.state = "Fetch" THEN
        CASE tick = 5 -> [m EXCEPT !.z = 0]
          [] tick = 6 -> [m EXCEPT !.z = m.a]
          [] tick = 7 -> [m EXCEPT !.state = "Execute"]
          [] OTHER -> m
    ELSE
        CASE tick = 0 -> [m EXCEPT !.a = 0]
          [] tick = 1 -> [m EXCEPT !.a = Not16(m.z)]
          [] tick = 7 -> [m EXCEPT !.mar = m.pc, !.state = "Fetch"]
          [] OTHER -> m

do_lda_noload(m, tick) ==
    IF m.state = "Fetch" THEN
        IF tick = 7 THEN [m EXCEPT !.state = "Execute", !.mar = BitAnd(m.ir, 4095)] ELSE m
    ELSE
        CASE tick = 1 -> [m EXCEPT !.a = 0]
          [] tick = 2 -> [m EXCEPT !.mbr = 0]
          [] tick = 4 -> IF IndexOk(m) THEN [m EXCEPT !.mbr = m.a]
                         ELSE Panic(m, "index")
          [] tick = 7 -> [m EXCEPT !.mar = m.pc, !.state = "Fetch"]
          [] OTHER -> m

do_lda(m, tick) ==
    IF m.state = "Fetch" THEN
        IF tick = 7 THEN [m EXCEPT !.state = "Execute", !.mar = BitAnd(m.ir, 4095)] ELSE m
    ELSE
        CASE tick = 1 -> [m EXCEPT !.a = 0]
          [] tick = 2 -> [m EXCEPT !.mbr = 0]
          [] tick = 4 -> IF IndexOk(m) THEN [m EXCEPT !.a = ReadRam(m), !.mbr = ReadRam(m)]
                         ELSE Panic(m, "index")
          [] tick = 7 -> [m EXCEPT !.mar = m.pc, !.state = "Fetch"]
          [] OTHER -> m

do_sta_early(m, tick) ==
    IF m.state = "Fetch" THEN
        IF tick = 7 THEN [m EXCEPT !.state = "Execute", !.mar = BitAnd(m.ir, 4095)] ELSE m
    ELSE
        CASE tick = 3 -> IF IndexOk(m) THEN [m EXCEPT !.ram = RamStore(m.ram, m.mar, m.a), !.mbr = 0]
                         ELSE Panic(m, "index")
          [] tick = 4 -> [m EXCEPT !.mbr = m.a]
          [] tick = 7 -> [m EXCEPT !.mar = m.pc, !.state = "Fetch"]
          [] OTHER -> m

do_sta(m, tick) ==
    IF m.state = "Fetch" THEN
        IF tick = 7 THEN [m EXCEPT !.state = "Execute", !.mar = BitAnd(m.ir, 4095)] ELSE m
    ELSE
        CASE tick = 3 -> [m EXCEPT !.mbr = 0]
          [] tick = 4 -> IF IndexOk(m) THEN [m EXCEPT !.ram = RamStore(m.ram, m.mar, m.a), !.mbr = m.a]
                         ELSE Panic(m, "index")
          [] tick = 7 -> [m EXCEPT !.mar = m.pc, !.state = "Fetch"]
          [] OTHER -> m

do_srj_nomask(m, tick) ==
    CASE tick = 5 -> [m EXCEPT !.a = m.pc]
      [] tick = 6 -> [m EXCEPT !.pc = 0]
      [] tick = 7 -> [m EXCEPT !.mar = BitAnd(m.ir, 4095), !.pc = BitAnd(m.ir, 4095)]
      [] OTHER -> m

do_srj(m, tick) ==
    CASE tick = 5 -> [m EXCEPT !.a = BitAnd(m.pc, 4095)]
      [] tick = 6 -> [m EXCEPT !.pc = 0]
      [] tick = 7 -> [m EXCEPT !.mar = BitAnd(m.ir, 4095), !.pc = BitAnd(m.ir, 4095)]
      [] OTHER -> m

do_jma(m, tick) ==
    CASE tick = 5 -> IF BitAnd(m.a, 32768) # 0 THEN [m EXCEPT !.pc = 0] ELSE m
      [] tick = 6 -> IF BitAnd(m.a, 32768) # 0 THEN [m EXCEPT !.pc = BitAnd(m.ir, 4095)] ELSE m
      [] tick = 7 -> [m EXCEPT !.mar = m.pc]
      [] OTHER -> m

do_jmp(m, tick) ==
    CASE tick = 5 -> [m EXCEPT !.pc = 0]
      [] tick = 6 -> [m EXCEPT !.pc = BitAnd(m.ir, 4095)]
      [] tick = 7 -> [m EXCEPT !.mar = m.pc]
      [] OTHER -> m

do_inp_timeout(m, tick) ==
    IF m.state = "Fetch" THEN
        CASE tick = 5 -> [m EXCEPT !.a = 0, !.dsl = BitAnd(m.ir, 63)]
          [] tick = 6 -> [m EXCEPT !.transfer_active = TRUE]
          [] tick = 7 -> [m EXCEPT !.state = "Execute"]
          [] OTHER -> m
    ELSE
        CASE tick = 4 -> IF m.ready THEN [m EXCEPT !.a = BitAnd(Shl16(m.dil, 8), 65280)] ELSE m
          [] tick = 5 -> IF m.ready THEN [m EXCEPT !.transfer_active = FALSE] ELSE m
          [] tick = 7 -> [m EXCEPT !.state = "Fetch", !.mar = m.pc]
          [] OTHER -> m

do_inp(m, tick) ==
    IF m.state = "Fetch" THEN
        CASE tick = 5 -> [m EXCEPT !.a = 0, !.dsl = BitAnd(m.ir, 63)]
          [] tick = 6 -> [m EXCEPT !.transfer_active = TRUE]
          [] tick = 7 -> [m EXCEPT !.state = "Execute"]
          [] OTHER -> m
    ELSE
        CASE tick = 4 -> IF m.ready THEN [m EXCEPT !.a = BitAnd(Shl16(m.dil, 8), 65280)] ELSE m
          [] tick = 5 -> IF m.ready THEN [m EXCEPT !.transfer_active = FALSE] ELSE m
          [] tick = 7 -> IF ~m.transfer_active THEN [m EXCEPT !.state = "Fetch", !.mar = m.pc] ELSE m
          [] OTHER -> m

do_out_timeout(m, tick) ==
    IF m.state = "Fetch" THEN
        CASE tick = 5 -> [m EXCEPT !.dol = BitAnd(Shr(m.a, 8), 255), !.dsl = BitAnd(m.ir, 63)]
          [] tick = 6 -> [m EXCEPT !.transfer_active = TRUE]
          [] tick = 7 -> [m EXCEPT !.state = "Execute"]
          [] OTHER -> m
    ELSE
        CASE tick = 4 -> IF m.ready THEN [m EXCEPT !.transfer_active = FALSE] ELSE m
          [] tick = 7 -> [m EXCEPT !.state = "Fetch", !.mar = m.pc]
          [] OTHER -> m

do_out(m, tick) ==
    IF m.state = "Fetch" THEN
        CASE tick = 5 -> [m EXCEPT !.dol = BitAnd(Shr(m.a, 8), 255), !.dsl = BitAnd(m.ir, 63)]
          [] tick = 6 -> [m EXCEPT !.transfer_active = TRUE]
          [] tick = 7 -> [m EXCEPT !.state = "Execute"]
          [] OTHER -> m
    ELSE
        CASE tick = 4 -> IF m.ready THEN [m EXCEPT !.transfer_active = FALSE] ELSE m
          [] tick = 7 -> IF ~m.transfer_active THEN [m EXCEPT !.state = "Fetch", !.mar = m.pc] ELSE m
          [] OTHER -> m

do_ral(m, tick) ==
    IF m.state = "Fetch" THEN
        CASE tick = 5 -> [m EXCEPT !.z = 0]
          [] tick = 6 -> [m EXCEPT !.z = m.a]
          [] tick = 7 -> [m EXCEPT !.state = "Execute"]
          [] OTHER -> m
    ELSE
        CASE tick = 0 -> [m EXCEPT !.a = 0]
          [] tick = 1 -> [m EXCEPT !.a = BitOr(Shr(BitAnd(m.z, 32768), 15), Shl16(m.z, 1))]
          [] tick = 7 -> [m EXCEPT !.mar = m.pc, !.state = "Fetch"]
          [] OTHER -> m

do_csa(m, tick) ==
    CASE tick = 5 -> [m EXCEPT !.a = 0]
      [] tick = 6 -> [m EXCEPT !.a = m.sr]
      [] tick = 7 -> [m EXCEPT !.mar = m.pc]
      [] OTHER -> m

do_nop(m, tick) == IF tick = 7 THEN [m EXCEPT !.mar = m.pc] ELSE m

\* do_sub, Execute tick 6.  z and m are i32 values in 0 .. 65535, so the
\* wrapping_sub never wraps; u16::try_from(result).unwrap() panics when the
\* difference is negative.
sub_tick6(m) ==
    LET z == m.z
        mm == m.mbr
        result == z - mm
    IN IF result < 0 \/ result > 65535 THEN Panic(m, "unwrap")
       ELSE LET m1 == [m EXCEPT !.a = result]
                carry == z < mm
                overflow == (BitAnd(BitXor(z, mm), 32768) # 0)
                            /\ (BitAnd(BitXor(z, result), 32768) # 0)
            IN set_flags(m1, m1.a, carry, overflow)

do_sub(m, tick) ==
    IF m.state = "Fetch" THEN
        CASE tick = 5 -> [m EXCEPT !.z = 0]
          [] tick = 6 -> [m EXCEPT !.z = m.a]
          [] tick = 7 -> [m EXCEPT !.mar = BitAnd(m.ir, 4095), !.state = "Execute"]
          [] OTHER -> m
    ELSE
        CASE tick = 2 -> [m EXCEPT !.a = 0, !.mbr = 0]
          [] tick = 3 -> IF IndexOk(m) THEN [m EXCEPT !.mbr = ReadRam(m)] ELSE Panic(m, "index")
          [] tick = 6 -> sub_tick6(m)
          [] tick = 7 -> [m EXCEPT !.mar = m.pc, !.state = "Fetch"]
          [] OTHER -> m

\* Mutant of cmp_tick6: the overflow test compares the result with the operand
cmp_tick6_ovf(m) ==
    LET z == m.z
        mm == m.mbr
        diff == z - mm
    IN IF diff < 0 \/ diff > 65535 THEN Panic(m, "unwrap")
       ELSE LET result == diff
                carry == z < mm
                overflow == (BitAnd(BitXor(z, mm), 32768) # 0)
                            /\ (BitAnd(BitXor(mm, result), 32768) # 0)
            IN set_flags(m, result, carry, overflow)

\* do_cmp, Execute tick 6: as do_sub, the result kept in a local
cmp_tick6(m) ==
    LET z == m.z
        mm == m.mbr
        diff == z - mm
    IN IF diff < 0 \/ diff > 65535 THEN Panic(m, "unwrap")
       ELSE LET result == diff
                carry == z < mm
                overflow == (BitAnd(BitXor(z, mm), 32768) # 0)
                            /\ (BitAnd(BitXor(z, result), 32768) # 0)
            IN set_flags(m, result, carry, overflow)

do_cmp(m, tick) ==
    IF m.state = "Fetch" THEN
        CASE tick = 5 -> [m EXCEPT !.z = 0]
          [] tick = 6 -> [m EXCEPT !.z = m.a]
          [] tick = 7 -> [m EXCEPT !.mar = BitAnd(m.ir, 4095), !.state = "Execute"]
          [] OTHER -> m
    ELSE
        CASE tick = 3 -> IF IndexOk(m) THEN [m EXCEPT !.mbr = ReadRam(m)] ELSE Panic(m, "index")
          [] tick = 6 -> cmp_tick6(m)
          [] tick = 7 -> [m EXCEPT !.mar = m.pc, !.state = "Fetch"]
          [] OTHER -> m

----------------------------------------------------------------------------
(* Clock sequencer *)

\* Mutant of FetchCommon: the PC is not advanced at tick 2
FetchCommon_nopc(m, tick, b) ==
    IF m.state # "Fetch" THEN m
    ELSE CASE tick = 3 -> [m EXCEPT !.mbr = 0]
           [] tick = 4 -> IF IndexOk(m) THEN [m EXCEPT !.ir = 0, !.mbr = ReadRam(m)]
                          ELSE Panic([m EXCEPT !.ir = 0], "index")
           [] tick = 5 -> [m EXCEPT !.ir = m.mbr]
           [] OTHER -> m

\* process_tick, the common Fetch operations before the dispatch.
\* self.pc += 1 on a u16: at 65535 a build with overflow checks panics,
\* a build without them wraps to 0.
FetchCommon(m, tick, b) ==
    IF m.state # "Fetch" THEN m
    ELSE CASE tick = 2 -> IF m.pc + 1 >= Word
                          THEN (IF b = "debug" THEN Panic(m, "overflow") ELSE [m EXCEPT !.pc = 0])
                          ELSE [m EXCEPT !.pc = m.pc + 1]
           [] tick = 3 -> [m EXCEPT !.mbr = 0]
           [] tick = 4 -> IF IndexOk(m) THEN [m EXCEPT !.ir = 0, !.mbr = ReadRam(m)]
                          ELSE Panic([m EXCEPT !.ir = 0], "index")
           [] tick = 5 -> [m EXCEPT !.ir = m.mbr]
           [] OTHER -> m

\* process_tick, the match on the decoded instruction
Dispatch(instr, m, tick) ==
    CASE instr = "Hlt" -> do_hlt(m, tick)
      [] instr = "Add" -> do_add(m, tick)
      [] instr = "Xor" -> do_xor(m, tick)
      [] instr = "And" -> do_and(m, tick)
      [] instr = "Ior" -> do_ior(m, tick)
      [] instr = "Not" -> do_not(m, tick)
      [] instr = "Lda" -> do_lda(m, tick)
      [] instr = "Sta" -> do_sta(m, tick)
      [] instr = "Srj" -> do_srj(m, tick)
      [] instr = "Jma" -> do_jma(m, tick)
      [] instr = "Jmp" -> do_jmp(m, tick)
      [] instr = "Inp" -> do_inp(m, tick)
      [] instr = "Out" -> do_out(m, tick)
      [] instr = "Ral" -> do_ral(m, tick)
      [] instr = "Csa" -> do_csa(m, tick)
      [] instr = "Nop" -> do_nop(m, tick)
      [] instr = "Sub" -> do_sub(m, tick)
      [] instr = "Cmp" -> do_cmp(m, tick)
      [] OTHER -> Panic(m, "unwrap")

process_tick(m, tick, b) ==
    LET c == FetchCommon(m, tick, b)
    IN IF c.panic # "none" THEN c ELSE Dispatch(get_instruction(c), c, tick)

process_tick_as_ungated(instr, m, tick, b) ==
    LET f == FetchCommon([m EXCEPT !.state = "Fetch"], tick, b)
        c == [f EXCEPT !.state = m.state]
    IN IF c.panic # "none" THEN c ELSE Dispatch(instr, c, tick)

\* The common Fetch operations followed by the handler of a given tag
process_tick_as(instr, m, tick, b) ==
    LET c == FetchCommon(m, tick, b)
    IN IF c.panic # "none" THEN c ELSE Dispatch(instr, c, tick)

\* Mutant of emulate_cycle_continues: the loop also stops when the run flag is cleared
emulate_cycle_continues_power(m) == m.clock_pulse < 8 /\ m.power

\* emulate_cycle: the loop condition
emulate_cycle_continues(m) == m.clock_pulse < 8

\* emulate_cycle: one iteration of the loop body
emulate_cycle_step(m, b) ==
    LET r == process_tick(m, m.clock_pulse, b)
    IN IF r.panic # "none" THEN r ELSE [r EXCEPT !.clock_pulse = r.clock_pulse + 1]

\* emulate_cycle: after the loop
emulate_cycle_exit(m) == [m EXCEPT !.clock_pulse = 0]

----------------------------------------------------------------------------
(* I/O handshake controller *)

\* handle_io, the match arms; b is the byte the operator types at the
\* "Input byte" prompt (the loop repeats the prompt until a byte parses)
handle_io_on_stale(instr, m, b) ==
    CASE instr = "Inp" ->
            IF m.transfer_active
            THEN (IF m.debug_enabled /\ ~m.ready THEN [m EXCEPT !.dil = b, !.ready = TRUE] ELSE m)
            ELSE m
      [] instr = "Out" ->
            IF m.transfer_active
            THEN (IF m.debug_enabled /\ ~m.ready THEN [m EXCEPT !.ready = TRUE] ELSE m)
            ELSE [m EXCEPT !.ready = FALSE]
      [] instr = "Err" -> Panic(m, "unwrap")
      [] OTHER -> [m EXCEPT !.ready = FALSE]

handle_io_on(instr, m, b) ==
    CASE instr = "Inp" ->
            IF m.transfer_active
            THEN (IF m.debug_enabled /\ ~m.ready THEN [m EXCEPT !.dil = b, !.ready = TRUE] ELSE m)
            ELSE [m EXCEPT !.ready = FALSE]
      [] instr = "Out" ->
            IF m.transfer_active
            THEN (IF m.debug_enabled /\ ~m.ready THEN [m EXCEPT !.ready = TRUE] ELSE m)
            ELSE [m EXCEPT !.ready = FALSE]
      [] instr = "Err" -> Panic(m, "unwrap")
      [] OTHER -> [m EXCEPT !.ready = FALSE]

handle_io(m, b) == handle_io_on(get_instruction(m), m, b)

----------------------------------------------------------------------------
(* run_program *)

Builds == {"debug", "release"}

\* Words a program image is made of: JMA 2, JMP 5, INP 1 (memory past the
\* image is zero, that is HLT; the empty image is all HLT)
ProgWords == {36866, 40965, 45057}

Programs == UNION {[1..n -> ProgWords] : n \in 0..MaxProg}

\* Bytes typed at the input prompt
Bytes == {170, 187}

\* Values of b and x commands
BpLines == {2}
PatchVals == {4095, 65535}
PatchRegs == {"PC", "A", "Z", "SR", "MAR", "MBR", "IR", "DSL", "DIL"}

\* run_program up to the loop: zero memory, copy the image to address 0, press_on
load_program(m, program) ==
    [m EXCEPT !.ram = [i \in 0..(Len(program) - 1) |-> program[i + 1]],
              !.power = TRUE]

Init ==
    /\ build \in Builds
    /\ \E program \in Programs : cpu = load_program(new, program)
    /\ twin = new
    /\ pre = cpu
    /\ loc = "cycle"
    /\ tag = "none"
    /\ patched = {}
    /\ ncycles = 1
    /\ ncmds = 0
    /\ ninstr = 0
    /\ args = <<>>

\* One iteration of emulate_cycle's loop: process_tick(clock_pulse), clock_pulse += 1
ProcessTick ==
    /\ loc = "cycle"
    /\ tag = "none"
    /\ emulate_cycle_continues(cpu)
    /\ cpu' = emulate_cycle_step(cpu, build)
    /\ loc' = IF cpu'.panic # "none" THEN "panic" ELSE "cycle"
    /\ UNCHANGED <<twin, pre, tag, build, patched, ncycles, ncmds, ninstr, args>>

\* The loop of emulate_cycle ends: clock_pulse = 0, dump_registers, breakpoint check
EndCycle ==
    /\ loc = "cycle"
    /\ tag = "none"
    /\ ~emulate_cycle_continues(cpu)
    /\ LET m == emulate_cycle_exit(cpu)
       IN cpu' = IF m.debug_enabled /\ m.pc \in m.breakpoints
                 THEN [m EXCEPT !.power = FALSE] ELSE m
    /\ loc' = "debug"
    /\ UNCHANGED <<twin, pre, tag, build, patched, ncycles, ncmds, ninstr, args>>

AtPrompt == loc = "debug" /\ tag = "none" /\ ~cpu.power

\* "c"
CmdContinue ==
    /\ AtPrompt
    /\ cpu' = [cpu EXCEPT !.power = TRUE]
    /\ UNCHANGED <<twin, pre, loc, tag, build, patched, ncycles, ncmds, ninstr, args>>

\* "q"
CmdQuit ==
    /\ AtPrompt
    /\ loc' = "quit"
    /\ UNCHANGED <<cpu, twin, pre, tag, build, patched, ncycles, ncmds, ninstr, args>>

\* "s": breakpoints.push(pc + 1), power = true
CmdStep ==
    /\ AtPrompt
    /\ ncmds < MaxCmds
    /\ cpu' = IF cpu.pc + 1 >= Word
              THEN (IF build = "debug" THEN Panic(cpu, "overflow")
                    ELSE [cpu EXCEPT !.breakpoints = @ \cup {0}, !.power = TRUE])
              ELSE [cpu EXCEPT !.breakpoints = @ \cup {cpu.pc + 1}, !.power = TRUE]
    /\ loc' = IF cpu'.panic # "none" THEN "panic" ELSE loc
    /\ ncmds' = ncmds + 1
    /\ UNCHANGED <<twin, pre, tag, build, patched, ncycles, ninstr, args>>

\* "b <line>"
CmdBreak ==
    /\ AtPrompt
    /\ ncmds < MaxCmds
    /\ \E line \in BpLines : cpu' = [cpu EXCEPT !.breakpoints = @ \cup {line}]
    /\ ncmds' = ncmds + 1
    /\ UNCHANGED <<twin, pre, loc, tag, build, patched, ncycles, ninstr, args>>

\* "x <register> <value>"
patch(m, reg, val) ==
    CASE reg = "PC" -> [m EXCEPT !.pc = val]
      [] reg = "A" -> [m EXCEPT !.a = val]
      [] reg = "Z" -> [m EXCEPT !.z = val]
      [] reg = "SR" -> [m EXCEPT !.sr = val]
      [] reg = "MAR" -> [m EXCEPT !.mar = val]
      [] reg = "MBR" -> [m EXCEPT !.mbr = val]
      [] reg = "IR" -> [m EXCEPT !.ir = val]
      [] reg = "DSL" -> [m EXCEPT !.dsl = val]
      [] reg = "DIL" -> [m EXCEPT !.dil = val]
      [] OTHER -> m

CmdPatch ==
    /\ AtPrompt
    /\ ncmds < MaxCmds
    /\ \E reg \in PatchRegs, val \in PatchVals :
          /\ cpu' = patch(cpu, reg, val)
          /\ patched' = patched \cup {reg}
    /\ ncmds' = ncmds + 1
    /\ UNCHANGED <<twin, pre, loc, tag, build, ncycles, ninstr, args>>

HandleIo_halted ==
    /\ loc = "debug"
    /\ tag = "none"
    /\ ncycles < MaxCycles
    /\ \E b \in Bytes : cpu' = handle_io(cpu, b)
    /\ loc' = IF cpu'.panic # "none" THEN "panic" ELSE "cycle"
    /\ pre' = cpu'
    /\ ncycles' = ncycles + 1
    /\ UNCHANGED <<twin, tag, build, patched, ncmds, ninstr, args>>

\* The prompt loop is left (power is set): handle_io, then the next emulate_cycle
HandleIo ==
    /\ loc = "debug"
    /\ tag = "none"
    /\ cpu.power
    /\ ncycles < MaxCycles
    /\ \E b \in Bytes : cpu' = handle_io(cpu, b)
    /\ loc' = IF cpu'.panic # "none" THEN "panic" ELSE "cycle"
    /\ pre' = cpu'
    /\ ncycles' = ncycles + 1
    /\ UNCHANGED <<twin, tag, build, patched, ncmds, ninstr, args>>

Next ==
    \/ ProcessTick
    \/ EndCycle
    \/ CmdContinue
    \/ CmdQuit
    \/ CmdStep
    \/ CmdBreak
    \/ CmdPatch
    \/ HandleIo

Spec == Init /\ [][Next]_vars

----------------------------------------------------------------------------
(* Handlers applied to chosen machine states *)

\* Operand and accumulator values
Vals == {0, 1, 3, 5, 32767, 32768, 65535}

\* Address fields
HAddrs == {3, 4095}

\* Address of the instruction
HStart == 5
HStarts == {HStart, 4095}

\* The handlers of the I/O instructions, and the handlers a second
\* instruction is taken from (LDA to read back what the first one left)
IoTags == {"Inp", "Out"}
NextTags == IoTags \cup {"Lda"}

\* Flags before the instruction
HFlags == {0, 15}

\* enum Instruction: the discriminants
Discriminant(t) ==
    CASE t = "Hlt" -> 0 [] t = "Add" -> 1 [] t = "Xor" -> 2 [] t = "And" -> 3
      [] t = "Ior" -> 4 [] t = "Not" -> 5 [] t = "Lda" -> 6 [] t = "Sta" -> 7
      [] t = "Srj" -> 8 [] t = "Jma" -> 9 [] t = "Jmp" -> 10 [] t = "Inp" -> 11
      [] t = "Out" -> 12 [] t = "Ral" -> 13 [] t = "Csa" -> 14 [] t = "Nop" -> 15
      [] t = "Sub" -> 16 [] t = "Cmp" -> 17

\* The instruction word for a tag and an address field (the opcode field
\* holds the low 4 bits of the discriminant)
InstrWord(t, addr) == (Discriminant(t) % 16) * 4096 + addr

\* The handler the second machine runs: CMP against SUB, else the same one
Partner(t) == CASE t = "Sub" -> "Cmp" [] t = "Cmp" -> "Sub" [] OTHER -> t

\* The word after the instruction, where the memory has one: LDA with the
\* same address field
NextWord(addr, t) ==
    IF addr < RAM_LENGTH THEN (addr :> InstrWord("Lda", t)) ELSE <<>>

\* The machine at an instruction boundary.  The PC stays far from 65535,
\* so one build stands for both.  debug.enabled is read by handle_io's INP
\* and OUT arms only: with it cleared the device never answers.
HInit ==
    /\ build = "release"
    /\ tag \in Tags
    /\ \E a \in Vals, operand \in Vals, t \in HAddrs, f \in HFlags, p \in HStarts,
          d \in (IF tag \in IoTags THEN BOOLEAN ELSE {TRUE}) :
          cpu = [new EXCEPT !.power = TRUE, !.pc = p, !.mar = p,
                            !.a = a, !.sr = operand, !.flags = f,
                            !.debug_enabled = d,
                            !.ram = (p :> InstrWord(tag, t)) @@ (t :> operand)
                                    @@ NextWord(p + 1, t)]
    /\ twin = cpu
    /\ pre = cpu
    /\ loc = "cycle"
    /\ patched = {}
    /\ ncycles = 1
    /\ ncmds = 0
    /\ ninstr = 1
    /\ args = <<>>

\* One iteration of emulate_cycle's loop with the handler of instr dispatched
HStep(instr, m, b) ==
    IF m.panic # "none" \/ ~emulate_cycle_continues(m) THEN m
    ELSE LET r == process_tick_as(instr, m, m.clock_pulse, b)
         IN IF r.panic # "none" THEN r ELSE [r EXCEPT !.clock_pulse = r.clock_pulse + 1]

\* The end of a cycle and the device step that follows it
HCycleEnd(instr, m, b) ==
    IF m.panic # "none" THEN m ELSE handle_io_on(instr, emulate_cycle_exit(m), b)

HCanStep(m) == m.panic = "none" /\ emulate_cycle_continues(m)

HTick ==
    /\ loc = "cycle"
    /\ tag # "none"
    /\ HCanStep(cpu) \/ HCanStep(twin)
    /\ cpu' = HStep(tag, cpu, build)
    /\ twin' = HStep(Partner(tag), twin, build)
    /\ UNCHANGED <<pre, loc, tag, build, patched, ncycles, ncmds, ninstr, args>>

HInstrOver(m) == m.panic # "none" \/ m.state = "Fetch"

HEndCycle ==
    /\ loc = "cycle"
    /\ tag # "none"
    /\ ~HCanStep(cpu) /\ ~HCanStep(twin)
    /\ \E b \in Bytes :
          /\ cpu' = HCycleEnd(tag, cpu, b)
          /\ twin' = HCycleEnd(Partner(tag), twin, b)
    /\ IF (HInstrOver(cpu') /\ HInstrOver(twin')) \/ ncycles >= MaxHCycles
       THEN loc' = "done" /\ ncycles' = ncycles
       ELSE loc' = "cycle" /\ ncycles' = ncycles + 1
    /\ UNCHANGED <<pre, tag, build, patched, ncmds, ninstr, args>>

\* The next instruction begins: its handler is dispatched from the state
\* the previous instruction and the device step left
HNextInstr ==
    /\ loc = "done"
    /\ tag # "none"
    /\ ninstr < MaxInstr
    /\ cpu.panic = "none" /\ cpu.state = "Fetch"
    /\ twin.panic = "none" /\ twin.state = "Fetch"
    /\ tag' \in NextTags
    /\ pre' = cpu
    /\ loc' = "cycle"
    /\ ncycles' = 1
    /\ ninstr' = ninstr + 1
    /\ UNCHANGED <<cpu, twin, build, patched, ncmds, args>>

HNext == HTick \/ HEndCycle \/ HNextInstr

HandlerSpec == HInit /\ [][HNext]_vars

----------------------------------------------------------------------------
(* set_flags applied to chosen arguments *)

\* Flags before the call
FlagsBefore == 0..15

\* A machine with some Flags and a call of set_flags about to be made
FInit ==
    /\ build = "release"
    /\ tag = "set_flags"
    /\ loc = "call"
    /\ \E f \in FlagsBefore : cpu = [new EXCEPT !.flags = f]
    /\ \E r \in Vals, c \in BOOLEAN, o \in BOOLEAN :
          args = [result |-> r, carry |-> c, overflow |-> o]
    /\ twin = new
    /\ pre = cpu
    /\ patched = {}
    /\ ncycles = 0
    /\ ncmds = 0
    /\ ninstr = 0

\* self.set_flags(result, carry, overflow)
FSetFlags ==
    /\ tag = "set_flags"
    /\ loc = "call"
    /\ cpu' = set_flags(cpu, args.result, args.carry, args.overflow)
    /\ loc' = "returned"
    /\ UNCHANGED <<twin, pre, tag, build, patched, ncycles, ncmds, ninstr, args>>

FNext == FSetFlags

FlagSpec == FInit /\ [][FNext]_vars

----------------------------------------------------------------------------
(* Vocabulary of the properties *)

HasFlag(f, bit) == BitAnd(f, bit) # 0

SignBit(x) == (x \div 32768) % 2

\* The 4-bit opcode field and the 12-bit address field of an instruction word
OpField(w) == (w \div 4096) % 16
AddrField(w) == w % 4096

\* The instruction set's numbering of the 4-bit opcodes
OpcodeTag(op) ==
    CASE op = 0 -> "Hlt" [] op = 1 -> "Add" [] op = 2 -> "Xor" [] op = 3 -> "And"
      [] op = 4 -> "Ior" [] op = 5 -> "Not" [] op = 6 -> "Lda" [] op = 7 -> "Sta"
      [] op = 8 -> "Srj" [] op = 9 -> "Jma" [] op = 10 -> "Jmp" [] op = 11 -> "Inp"
      [] op = 12 -> "Out" [] op = 13 -> "Ral" [] op = 14 -> "Csa" [] op = 15 -> "Nop"

\* All 8 ticks of the current cycle of run_program have been processed
CycleDone == loc = "cycle" /\ tag = "none" /\ cpu.clock_pulse = 8

\* The word fetched in the cycle is a jump that is taken
TakenJumpFetched ==
    \/ OpField(cpu.ir) \in {8, 10}
    \/ OpField(cpu.ir) = 9 /\ SignBit(pre.a) = 1

\* Execute tick 6 of the handler applied to m is over: it returned or it panicked
AfterTick6(m) ==
    /\ m.state = "Execute"
    /\ \/ m.clock_pulse = 7 /\ m.panic = "none"
       \/ m.clock_pulse = 6 /\ m.panic # "none"

\* The memory operand of the instruction the handlers are applied to
HOperand == RamWord(pre.ram, AddrField(RamWord(pre.ram, pre.pc)))

----------------------------------------------------------------------------
(* Properties *)

\* C1: for every IR value the tag dispatched is the one whose opcode number
\* is the top 4 bits of IR.
C1_DispatchMatchesOpcode == get_instruction(cpu) = OpcodeTag(OpField(cpu.ir))

\* C2: every memory access uses an index in 0 .. 4095 (stated for the runs
\* in which no x command has set MAR: an address built from the PC, an
\* address field or a jump target never leaves the memory).
C2_MemoryIndexInRange == "MAR" \notin patched => cpu.panic # "index"

\* C3: a cycle processes the ticks 0, 1, ..., 7 in order, each with the
\* effect of that tick (tick 2 advances the PC, tick 5 latches IR), whether
\* or not the run flag has been cleared on the way: after HLT cleared it at
\* tick 6, tick 7 still sets MAR = PC; the cycle ends only after tick 7 and
\* leaves the tick counter at 0.  A step either does this or panics.
C3_EightTicksInOrder ==
    [][ (loc = "cycle" /\ tag = "none") =>
          IF cpu.clock_pulse < 8
          THEN \/ cpu'.panic # "none"
               \/ /\ cpu'.clock_pulse = cpu.clock_pulse + 1
                  /\ loc' = "cycle"
                  /\ (cpu.clock_pulse = 2 /\ cpu.state = "Fetch" => cpu'.pc = (cpu.pc + 1) % Word)
                  /\ (cpu.clock_pulse = 5 /\ cpu.state = "Fetch" => cpu'.ir = cpu.mbr)
                  /\ (cpu.clock_pulse = 6 /\ OpField(cpu.ir) = 0 => ~cpu'.power)
                  /\ (cpu.clock_pulse = 7 /\ ~cpu.power => cpu'.mar = cpu.pc)
          ELSE cpu'.clock_pulse = 0 /\ loc' = "debug" ]_vars

\* C3 witness: all 8 ticks are over, HLT cleared the run flag in this cycle
\* and tick 7 has moved MAR to the PC
C3_Witness ==
    /\ CycleDone
    /\ pre.power /\ ~cpu.power
    /\ cpu.mar = cpu.pc /\ cpu.mar # pre.mar

\* C4: ADD's Execute tick 6 completes for every Z and operand, with A the
\* low 16 bits of Z + operand and Carry set iff the sum exceeds 0xFFFF.
C4_AddTick6 ==
    (tag = "Add" /\ AfterTick6(cpu)) =>
        /\ cpu.panic = "none"
        /\ cpu.a = (cpu.z + cpu.mbr) % Word
        /\ HasFlag(cpu.flags, FLAG_CARRY) <=> (cpu.z + cpu.mbr > 65535)

\* Z and the operand have the same sign and the 16-bit sum has the other one
SignedOverflowAdd(z, m) ==
    /\ SignBit(z) = SignBit(m)
    /\ SignBit((z + m) % Word) # SignBit(z)

\* C5: ADD clears the run flag, and sets Overflow, exactly when the addition
\* overflows as a signed one; 0x7FFF + 1 halts with Overflow, 5 + 3 gives
\* A = 8 with all four flags clear and the run flag as it was.
C5_AddOverflowHalts ==
    (tag = "Add" /\ AfterTick6(cpu)) =>
        /\ SignedOverflowAdd(cpu.z, cpu.mbr) => (~cpu.power /\ HasFlag(cpu.flags, FLAG_OVERFLOW))
        /\ ~SignedOverflowAdd(cpu.z, cpu.mbr) => cpu.power = pre.power
        /\ (cpu.z = 32767 /\ cpu.mbr = 1) => (~cpu.power /\ HasFlag(cpu.flags, FLAG_OVERFLOW))
        /\ (cpu.z = 5 /\ cpu.mbr = 3) => (cpu.a = 8 /\ cpu.flags = 0 /\ cpu.power = pre.power)

\* C6: SUB's Execute tick 6 completes for every Z and operand, with
\* A = (Z - operand) mod 2^16, Carry iff Z < operand, Overflow iff Z and the
\* operand differ in sign and the result's sign differs from Z's.
C6_SubTick6 ==
    (tag = "Sub" /\ AfterTick6(cpu)) =>
        /\ cpu.panic = "none"
        /\ cpu.a = (cpu.z - cpu.mbr + Word) % Word
        /\ HasFlag(cpu.flags, FLAG_CARRY) <=> (cpu.z < cpu.mbr)
        /\ HasFlag(cpu.flags, FLAG_OVERFLOW) <=>
              (SignBit(cpu.z) # SignBit(cpu.mbr)
               /\ SignBit((cpu.z - cpu.mbr + Word) % Word) # SignBit(cpu.z))

\* C7: CMP, run through its Fetch and Execute cycles, never writes A and
\* finishes with A as it was before, while SUB from the same state finishes
\* with its result in A.
C7_CmpKeepsASubWritesA ==
    tag = "Cmp" =>
        /\ cpu.a = pre.a
        /\ loc = "done" =>
              /\ cpu.panic = "none"
              /\ twin.panic = "none"
              /\ twin.a = (pre.a - HOperand + Word) % Word

\* C8: from the same state, CMP and SUB end with the same Flags; the two
\* machines differ in A and in nothing else (they also panic on the same
\* inputs).
C8_CmpSubSameFlags ==
    (tag \in {"Sub", "Cmp"} /\ loc = "done") =>
        /\ cpu.flags = twin.flags
        /\ cpu.panic = twin.panic
        /\ [cpu EXCEPT !.a = 0] = [twin EXCEPT !.a = 0]

\* C8 witness: SUB and CMP have both completed, the Flags were recomputed
\* (Overflow, from 0x8000 - 1) and only SUB changed A
C8_Witness ==
    /\ tag = "Sub" /\ loc = "done"
    /\ cpu.panic = "none" /\ twin.panic = "none"
    /\ HasFlag(twin.flags, FLAG_OVERFLOW)
    /\ twin.flags # pre.flags
    /\ twin.a = pre.a /\ cpu.a # pre.a

C10_JumpSetsPc ==
    CycleDone =>
        /\ OpField(cpu.ir) \in {8, 10} => cpu.pc = AddrField(cpu.ir)
        /\ (OpField(cpu.ir) = 9 /\ SignBit(pre.a) = 1) => cpu.pc = AddrField(cpu.ir)
        /\ (OpField(cpu.ir) = 9 /\ SignBit(pre.a) = 0) => cpu.pc = pre.pc + 1

\* The address field of the instruction the handlers are applied to
HAddrField == AddrField(RamWord(pre.ram, pre.pc))

\* The cycle that the common Fetch actions and the SRJ handler make is over
SrjCycleOver == tag = "Srj" /\ ninstr = 1 /\ loc = "done" /\ cpu.panic = "none"

\* C11 as stated: with PC = p at the start of the cycle and address field t,
\* the SRJ cycle ends with A = p & 0xFFF and PC = t.
C11_SrjSavesStartPc ==
    SrjCycleOver => (cpu.a = BitAnd(pre.pc, 4095) /\ cpu.pc = HAddrField)

\* C11 as amended: the SRJ cycle ends with A = (p + 1) & 0xFFF, the address
\* of the word after the SRJ, and PC = t.
C11_SrjSavesReturnAddress ==
    SrjCycleOver => (cpu.a = BitAnd((pre.pc + 1) % Word, 4095) /\ cpu.pc = HAddrField)

\* C11 witness: SRJ at address 4095 is over; the return address 4096 was
\* cut to 12 bits and the PC is the address field
C11_Witness ==
    /\ SrjCycleOver
    /\ pre.pc = 4095 /\ cpu.a = 0
    /\ cpu.pc = HAddrField /\ cpu.pc # pre.pc + 1

\* The second cycle of a run whose image starts with an INP is over and no
\* register was patched: the device step after the first cycle supplied the
\* byte, so this is the cycle that completes the first INP's handshake
FirstInpHandshakeOver ==
    /\ CycleDone
    /\ ncycles = 2
    /\ OpField(RamWord(cpu.ram, 0)) = 11
    /\ patched = {}

\* C12: each INP consumes one byte of the device; after the cycle that
\* completes its handshake A is that byte shifted left by 8 (low byte 0) and
\* transfer_active is false.  Stated for the first INP of a run.
C12_InpReadsDeviceByte ==
    FirstInpHandshakeOver =>
        /\ cpu.dil \in Bytes
        /\ cpu.a = cpu.dil * 256
        /\ ~cpu.transfer_active

\* An Execute cycle of the INP or OUT handler is under way, or it has just
\* run its 8 ticks and the device step is next
IoExecuteCycle ==
    /\ tag \in IoTags /\ loc = "cycle"
    /\ cpu.state = "Execute"
    /\ cpu.clock_pulse < 8 \/ ncycles >= 2

\* C13: after INP or OUT has set transfer_active and switched to Execute, a
\* cycle that runs with ready false is a retry: its ticks change nothing,
\* and it ends with the sub-state Execute, transfer_active true and PC, A
\* and IR as they were, cycle after cycle; a cycle that runs with ready true
\* clears transfer_active and at tick 7 returns to Fetch with MAR = PC.
C13_BusyWaitUntilReady ==
    [][ IoExecuteCycle =>
          IF ~cpu.ready
          THEN /\ cpu.transfer_active
               /\ cpu.clock_pulse < 8 => cpu' = [cpu EXCEPT !.clock_pulse = @ + 1]
               /\ cpu'.state = "Execute" /\ cpu'.transfer_active
               /\ cpu'.pc = cpu.pc /\ cpu'.a = cpu.a /\ cpu'.ir = cpu.ir
          ELSE /\ cpu.clock_pulse = 5 => ~cpu'.transfer_active
               /\ cpu.clock_pulse = 7 =>
                     (cpu'.state = "Fetch" /\ ~cpu'.transfer_active /\ cpu'.mar = cpu.pc) ]_vars

\* C13 witness: the INP handler has run two Execute cycles with ready false
\* and is still waiting, with the PC and A the Fetch cycle left
C13_Witness ==
    /\ tag = "Inp" /\ loc = "cycle"
    /\ ncycles = 3 /\ cpu.clock_pulse = 8
    /\ cpu.state = "Execute" /\ cpu.transfer_active /\ ~cpu.ready
    /\ cpu.pc = pre.pc + 1 /\ cpu.a = 0

\* C14: ready is false at the moment an INP or OUT sets transfer_active
\* (Fetch tick 6), whatever instruction came before, another I/O instruction
\* included: the device step after a cycle leaves ready false unless the
\* instruction is an INP or OUT whose transfer is in progress, so every
\* instruction boundary has ready false and transfer_active false.
C14_ReadyFalseAtTransferStart ==
    [][ /\ (tag \in IoTags /\ ~cpu.transfer_active /\ cpu'.transfer_active) =>
              (~cpu.ready /\ cpu.state = "Fetch" /\ cpu.clock_pulse = 6)
        /\ (tag # "none" /\ loc' = "done" /\ cpu'.panic = "none"
                /\ ~(tag \in IoTags /\ cpu'.transfer_active)) => ~cpu'.ready ]_vars

\* C14 witness: an INP that follows a completed INP has just set
\* transfer_active, and the ready that completed the first one is gone
C14_Witness ==
    /\ tag = "Inp" /\ ninstr = 2
    /\ OpField(pre.ir) = 11 /\ pre.dil \in Bytes
    /\ cpu.state = "Fetch" /\ cpu.clock_pulse = 7
    /\ cpu.transfer_active /\ ~cpu.ready

\* The handlers that call set_flags
FlagTags == {"Add", "Sub", "Cmp", "Xor", "And", "Ior"}

\* C15: Flags change only at Execute tick 6 of ADD, SUB, CMP, XOR, AND and
\* IOR; no other tick, no other handler, no common Fetch action and no
\* device step changes them, so they persist across later instructions that
\* set no flags.
C15_FlagsChangeOnlyAtTick6 ==
    [][ cpu'.flags # cpu.flags =>
          /\ tag \in FlagTags /\ loc = "cycle"
          /\ cpu.state = "Execute" /\ cpu.clock_pulse = 6 ]_vars

\* C15 witness: XOR changed the Flags, and the I/O instruction that ran
\* after it has completed with the Flags XOR left
C15_Witness ==
    /\ ninstr = 2 /\ loc = "done" /\ cpu.panic = "none"
    /\ OpField(pre.ir) = 2
    /\ cpu.flags \notin HFlags
    /\ cpu.flags = pre.flags

\* C16: a memory word changes only at Execute tick 4 of STA, which writes A
\* to memory[MAR] with MAR the 12-bit address field of the instruction;
\* every other word, and every tick of every other handler, the common
\* Fetch actions and the device step leave memory as it was.
C16_MemoryChangesOnlyAtStaTick4 ==
    [][ cpu'.ram # cpu.ram =>
          /\ tag = "Sta" /\ loc = "cycle"
          /\ cpu.state = "Execute" /\ cpu.clock_pulse = 4
          /\ cpu.mar = AddrField(cpu.ir)
          /\ RamWord(cpu'.ram, cpu.mar) = cpu.a
          /\ \A i \in (DOMAIN cpu.ram \cup DOMAIN cpu'.ram) \ {cpu.mar} :
                RamWord(cpu'.ram, i) = RamWord(cpu.ram, i) ]_vars

\* C16 witness: STA has completed and the word at its address field, which
\* held something else, now holds A; the instruction word is still in place
C16_Witness ==
    /\ tag = "Sta" /\ loc = "done" /\ cpu.panic = "none"
    /\ RamWord(cpu.ram, HAddrField) = pre.a
    /\ RamWord(pre.ram, HAddrField) # pre.a
    /\ RamWord(cpu.ram, pre.pc) = RamWord(pre.ram, pre.pc)

\* C17: the run flag goes from set to cleared only in a cycle that executes
\* HLT or an overflowing ADD, or by a breakpoint hit after the cycle; a
\* cycle that fetches any other instruction word (NOP, LDA, JMP, CSA, ...)
\* ends with the run flag still set.
C17_OtherWordsKeepRunFlag ==
    (CycleDone /\ pre.power /\ OpField(cpu.ir) \notin {0, 1}) => cpu.power

\* The registers an x command can set, the outgoing data latch and the
\* sequencer and handshake state
Regs(m) == <<m.pc, m.a, m.z, m.sr, m.mar, m.mbr, m.ir, m.dsl, m.dil, m.dol,
             m.state, m.transfer_active, m.ready>>

\* C18: while the run flag is cleared, at the prompt after a completed
\* cycle, no tick is executed and no cycle begins; Flags and memory stay as
\* they are, and the registers change only by an x command; a cycle begins
\* only once c or s has set the run flag; after q nothing happens any more.
C18_HaltedMachineHolds ==
    [][ /\ AtPrompt =>
              /\ loc' # "cycle"
              /\ ncycles' = ncycles
              /\ cpu'.clock_pulse = cpu.clock_pulse
              /\ cpu'.flags = cpu.flags
              /\ cpu'.ram = cpu.ram
              /\ Regs(cpu') # Regs(cpu) =>
                    \E reg \in PatchRegs, val \in PatchVals :
                        cpu' = patch(cpu, reg, val) /\ reg \in patched'
              /\ cpu'.power => Regs(cpu') = Regs(cpu)
        /\ (tag = "none" /\ loc = "debug" /\ loc' = "cycle") => cpu.power
        /\ loc # "quit" ]_vars

\* C18 witness: the machine halted after its first cycle, x set A, and q
\* ended the run; no second cycle began
C18_Witness ==
    /\ loc = "quit" /\ tag = "none"
    /\ ~cpu.power /\ ncycles = 1
    /\ patched = {"A"} /\ cpu.a = 4095
    /\ cpu.flags = pre.flags /\ cpu.ram = pre.ram

\* The machine the handlers are applied to is about to process a tick
HAtTick == tag # "none" /\ loc = "cycle" /\ cpu.panic = "none" /\ cpu.clock_pulse < 8

\* C21: the common actions (tick 2: PC += 1; tick 3: MBR = 0; tick 4: IR = 0
\* and MBR = memory[MAR]; tick 5: IR = MBR) are performed on a tick if and
\* only if the sub-state is Fetch at that tick; in an Execute cycle none of
\* them runs and every tick leaves PC and IR as they were.
C21_CommonActionsOnlyInFetch ==
    [][ HAtTick =>
          IF cpu.state = "Fetch"
          THEN /\ cpu.clock_pulse = 2 => cpu'.pc = cpu.pc + 1
               /\ cpu.clock_pulse = 3 => cpu'.mbr = 0
               /\ (cpu.clock_pulse = 4 /\ IndexOk(cpu)) =>
                     (cpu'.ir = 0 /\ cpu'.mbr = RamWord(cpu.ram, cpu.mar))
               /\ cpu.clock_pulse = 5 => cpu'.ir = cpu.mbr
          ELSE cpu'.pc = cpu.pc /\ cpu'.ir = cpu.ir ]_vars

\* C21 witness: ADD is in its Execute cycle, ticks 2 to 5 are over, and the
\* PC and IR are those the Fetch cycle left
C21_Witness ==
    /\ tag = "Add" /\ ninstr = 1 /\ loc = "cycle"
    /\ cpu.state = "Execute" /\ cpu.clock_pulse = 6
    /\ cpu.pc = pre.pc + 1
    /\ cpu.ir = RamWord(pre.ram, pre.pc) /\ cpu.ir # 0

\* The handlers of the memory-operand and unary instructions
TwoCycleTags == {"Add", "Xor", "And", "Ior", "Sub", "Cmp", "Not", "Ral", "Lda", "Sta"}

\* C22: every memory-operand or unary instruction takes exactly two
\* cycles: the Fetch cycle ends in Execute, the one Execute cycle that
\* follows runs to tick 7, which sets MAR = PC and switches back to Fetch;
\* the sub-state is Execute at two cycle boundaries in a row only during an
\* INP or OUT busy-wait.
C22_TwoCycleInstructions ==
    /\ (tag \in TwoCycleTags /\ ninstr = 1) =>
          /\ cpu.panic = "none"
          /\ (loc = "cycle" /\ ncycles = 1 /\ cpu.clock_pulse = 8) => cpu.state = "Execute"
          /\ (loc = "cycle" /\ ncycles = 2 /\ cpu.clock_pulse = 8) =>
                (cpu.state = "Fetch" /\ cpu.mar = cpu.pc)
          /\ ncycles <= 2
    /\ (tag # "none" /\ loc = "cycle" /\ ncycles >= 2 /\ cpu.clock_pulse = 8
            /\ cpu.state = "Execute") => tag \in IoTags

\* C23: for every result and every pair (carry, overflow), whatever the
\* Flags were before, set_flags leaves Zero set iff result = 0, Carry iff
\* carry, Overflow iff overflow, Negative iff bit 15 of result is set, and
\* no other bit.
C23_SetFlags ==
    (tag = "set_flags" /\ loc = "returned") =>
        /\ HasFlag(cpu.flags, FLAG_ZERO) <=> (args.result = 0)
        /\ HasFlag(cpu.flags, FLAG_CARRY) <=> args.carry
        /\ HasFlag(cpu.flags, FLAG_OVERFLOW) <=> args.overflow
        /\ HasFlag(cpu.flags, FLAG_NEGATIVE) <=> (SignBit(args.result) = 1)
        /\ cpu.flags \in 0..15
        /\ [cpu EXCEPT !.flags = 0] = [pre EXCEPT !.flags = 0]

\* C23 witness: set_flags has returned from a call with all four Flags set
\* before, a positive result and no carry or overflow: all are clear now
C23_Witness ==
    /\ tag = "set_flags" /\ loc = "returned"
    /\ pre.flags = 15
    /\ args = [result |-> 5, carry |-> FALSE, overflow |-> FALSE]
    /\ cpu.flags = 0

\* STA or LDA has completed: MBR = A, MAR = PC, sub-state Fetch, Flags as
\* before the instruction
StaLdaCompleted ==
    /\ cpu.panic = "none"
    /\ cpu.mbr = cpu.a /\ cpu.mar = cpu.pc
    /\ cpu.state = "Fetch"
    /\ cpu.flags = pre.flags

\* LDA t is over, and it was fetched right after STA t
LdaAfterStaOver ==
    /\ tag = "Lda" /\ ninstr = 2 /\ loc = "done"
    /\ OpField(pre.ir) = 7
    /\ RamWord(pre.ram, pre.pc) = InstrWord("Lda", AddrField(pre.ir))

\* C24: for any accumulator value v and address t, STA t leaves
\* memory[t] = v and A = v, and LDA t executed after it leaves memory[t] = v
\* and A = v again although it clears A on the way; after each of the two
\* MBR = A, MAR = PC, the sub-state is Fetch and the Flags are unchanged.
C24_StaLdaRoundTrip ==
    /\ (tag = "Sta" /\ ninstr = 1 /\ loc = "done") =>
          /\ RamWord(cpu.ram, HAddrField) = pre.a
          /\ cpu.a = pre.a
          /\ StaLdaCompleted
    /\ LdaAfterStaOver =>
          /\ RamWord(cpu.ram, AddrField(pre.ir)) = pre.a
          /\ cpu.a = pre.a
          /\ StaLdaCompleted

\* C24 witness: STA 3 stored 0x8000, LDA 3 ran after it and has completed
\* with A = 0x8000 again
C24_Witness ==
    /\ LdaAfterStaOver
    /\ AddrField(pre.ir) = 3
    /\ cpu.a = 32768 /\ RamWord(cpu.ram, 3) = 32768
    /\ StaLdaCompleted

\* C25: in the Fetch sub-state no handler changes anything at ticks 0 to 4:
\* whichever handler is dispatched, the tick does what the common Fetch
\* actions do and nothing more.
C25_HandlersIdleAtFetchTicks0To4 ==
    [][ (HAtTick /\ cpu.state = "Fetch" /\ cpu.clock_pulse <= 4) =>
          LET c == FetchCommon(cpu, cpu.clock_pulse, build)
          IN cpu' = IF c.panic # "none" THEN c
                    ELSE [c EXCEPT !.clock_pulse = @ + 1] ]_vars

\* C25 witness: SRJ has been dispatched at ticks 0 to 4 of its Fetch cycle;
\* the PC advanced, MBR holds the fetched word and A is untouched
C25_Witness ==
    /\ tag = "Srj" /\ ninstr = 1 /\ loc = "cycle"
    /\ cpu.state = "Fetch" /\ cpu.clock_pulse = 5
    /\ cpu.pc = pre.pc + 1 /\ cpu.ir = 0
    /\ cpu.mbr = RamWord(pre.ram, pre.pc)
    /\ cpu.a = pre.a /\ cpu.a # 0

\* C26: at every cycle boundary transfer_active is true only if the
\* sub-state is Execute and the instruction in IR is INP or OUT, so a
\* machine in Fetch between cycles has no transfer in progress; and no
\* handler but INP's and OUT's changes transfer_active.
C26_TransferOnlyInIoExecute ==
    [][ /\ (tag # "none" /\ tag \notin IoTags) =>
              cpu'.transfer_active = cpu.transfer_active
        /\ (tag' # "none" /\ cpu'.clock_pulse \in {0, 8} /\ cpu'.transfer_active) =>
              /\ cpu'.state = "Execute"
              /\ tag' \in IoTags
              /\ ninstr' = 1 => OpField(cpu'.ir) \in {11, 12} ]_vars

\* C26 witness: the Fetch cycle of OUT is over; the machine is in Execute
\* with the transfer in progress and the OUT word in IR
C26_Witness ==
    /\ tag = "Out" /\ ninstr = 1 /\ loc = "cycle"
    /\ ncycles = 2 /\ cpu.clock_pulse = 0
    /\ cpu.state = "Execute" /\ cpu.transfer_active
    /\ OpField(cpu.ir) = 12

====
